---- MODULE Spec2Model ----
(***************************************************************************)
(* Model of postgis_backup_tool: dump.py, restore.py and the pgback        *)
(* helpers (env.py, io.py, run.py).                                        *)
(*                                                                         *)
(* Text is modelled as a sequence of tokens.  A token is either one        *)
(* punctuation or whitespace character, or a maximal piece of an           *)
(* identifier that the patterns of the program treat as a unit; two        *)
(* adjacent word tokens spell one longer identifier (<<"old","extra">> is  *)
(* the identifier oldextra).  The regular expressions of restore.py are    *)
(* written as sequences of items and matched by a backtracking matcher     *)
(* with Python's priorities (greedy, lazy, ordered alternation).           *)
(***************************************************************************)
EXTENDS Integers, Sequences, FiniteSets, TLC

None == "<None>"
\* None where the value, when present, is a sequence
NoneSeq == <<None>>

(***************************************************************************)
(* Tokens                                                                  *)
(***************************************************************************)
NL == "\n"
SP == " "
DQ == "\""
WS == {SP, NL}
Punct == {";", ".", ",", "=", DQ, SP, NL, "-"}
IsWord(tok) == tok \notin Punct

\* str.upper() of a token, as far as (?i) needs it
Upper(tok) ==
    CASE tok = "alter" -> "ALTER"
      [] tok = "create" -> "CREATE"
      [] tok = "old" -> "OLD"
      [] OTHER -> tok

(***************************************************************************)
(* Regular expressions (module re)                                         *)
(***************************************************************************)
Lit(w) == [t |-> "lit", w |-> w]
One(c) == [t |-> "one", c |-> c]
Greedy(c, min) == [t |-> "greedy", c |-> c, min |-> min]
Lazy(c, min) == [t |-> "lazy", c |-> c, min |-> min]
Bol(multiline) == [t |-> "bol", m |-> multiline]
Eol(multiline) == [t |-> "eol", m |-> multiline]
WordB == [t |-> "wordb"]
NotBehind(c) == [t |-> "notbehind", c |-> c]
Alt(alts) == [t |-> "alt", a |-> alts]
Opt(w) == Alt(<< <<Lit(w)>>, <<>> >>)

\* character classes: a class is a predicate on tokens, named by a string
InClass(c, tok) ==
    CASE c = "s" -> tok \in WS                       \* \s
      [] c = "dot" -> tok # NL                        \* .  without (?s)
      [] c = "dotall" -> TRUE                         \* .  with (?s)
      [] c = "w_or_dq" -> IsWord(tok) \/ tok = DQ     \* [\w"]
      [] OTHER -> FALSE

\* the length of the longest run of tokens of class c in s from position i
RunLen(c, s, i) ==
    LET ok(n) == \A k \in i..(i + n - 1) : InClass(c, s[k])
    IN  CHOOSE n \in 0..(Len(s) + 1 - i) :
            /\ ok(n)
            /\ \A m \in (n + 1)..(Len(s) + 1 - i) : ~ok(m)

LitAt(w, s, i, icase) ==
    /\ i + Len(w) - 1 <= Len(s)
    /\ \A k \in 1..Len(w) :
          IF icase THEN Upper(s[i + k - 1]) = Upper(w[k]) ELSE s[i + k - 1] = w[k]

\* \b at position i (between s[i-1] and s[i])
AtWordB(s, i) ==
    LET before == i > 1 /\ IsWord(s[i - 1])
        after == i <= Len(s) /\ IsWord(s[i])
    IN  before # after

AtBol(s, i, multiline) == i = 1 \/ (multiline /\ s[i - 1] = NL)

\* $ : at the end, before a final newline, and with (?m) before any newline
AtEol(s, i, multiline) ==
    \/ i = Len(s) + 1
    \/ i = Len(s) /\ s[i] = NL
    \/ multiline /\ i <= Len(s) /\ s[i] = NL

\* Match(items, s, i, icase): the position after the match of items that
\* starts at position i, as the backtracking matcher finds it; 0 for no match.
RECURSIVE Match(_, _, _, _)
RECURSIVE TryDown(_, _, _, _, _, _)
RECURSIVE TryUp(_, _, _, _, _, _)
RECURSIVE TryAlt(_, _, _, _, _, _)
Match(items, s, i, icase) ==
    IF items = <<>> THEN i
    ELSE LET it == Head(items)
             rest == Tail(items)
         IN  CASE it.t = "lit" ->
                    IF LitAt(it.w, s, i, icase)
                    THEN Match(rest, s, i + Len(it.w), icase) ELSE 0
               [] it.t = "one" ->
                    IF i <= Len(s) /\ InClass(it.c, s[i])
                    THEN Match(rest, s, i + 1, icase) ELSE 0
               [] it.t = "greedy" ->
                    TryDown(rest, s, i, RunLen(it.c, s, i), it.min, icase)
               [] it.t = "lazy" ->
                    TryUp(rest, s, i, it.min, RunLen(it.c, s, i), icase)
               [] it.t = "bol" ->
                    IF AtBol(s, i, it.m) THEN Match(rest, s, i, icase) ELSE 0
               [] it.t = "eol" ->
                    IF AtEol(s, i, it.m) THEN Match(rest, s, i, icase) ELSE 0
               [] it.t = "wordb" ->
                    IF AtWordB(s, i) THEN Match(rest, s, i, icase) ELSE 0
               [] it.t = "notbehind" ->
                    IF i > 1 /\ InClass(it.c, s[i - 1]) THEN 0
                    ELSE Match(rest, s, i, icase)
               [] it.t = "alt" ->
                    TryAlt(it.a, rest, s, i, 1, icase)
               [] OTHER -> 0
\* greedy repetition of min..max tokens: the longest count after which the
\* rest matches
TryDown(rest, s, i, max, min, icase) ==
    LET good == {n \in min..max : Match(rest, s, i + n, icase) # 0}
    IN  IF good = {} THEN 0
        ELSE Match(rest, s, i + (CHOOSE n \in good : \A m \in good : m <= n), icase)
\* lazy repetition of min..max tokens: the shortest count after which the
\* rest matches
TryUp(rest, s, i, min, max, icase) ==
    LET good == {n \in min..max : Match(rest, s, i + n, icase) # 0}
    IN  IF good = {} THEN 0
        ELSE Match(rest, s, i + (CHOOSE n \in good : \A m \in good : m >= n), icase)
\* alternation: the alternatives in order
TryAlt(alts, rest, s, i, k, icase) ==
    IF k > Len(alts) THEN 0
    ELSE LET e == Match(alts[k] \o rest, s, i, icase)
         IN  IF e # 0 THEN e ELSE TryAlt(alts, rest, s, i, k + 1, icase)

\* re.sub(pattern, repl, s): the leftmost non-overlapping matches, each found
\* by trying the start positions from left to right, replaced by repl;
\* keep = TRUE is the replacement \g<0>, the match itself.  No pattern of the
\* program matches the empty string.
RECURSIVE SubFrom(_, _, _, _, _, _)
SubFrom(items, icase, repl, keep, s, pos) ==
    LET starts == {p \in pos..Len(s) : Match(items, s, p, icase) > p}
    IN  IF starts = {} THEN SubSeq(s, pos, Len(s))
        ELSE LET p == CHOOSE q \in starts : \A r \in starts : q <= r
                 e == Match(items, s, p, icase)
             IN  SubSeq(s, pos, p - 1)
                     \o (IF keep THEN SubSeq(s, p, e - 1) ELSE repl)
                     \o SubFrom(items, icase, repl, keep, s, e)

re_sub(items, icase, repl, s) == SubFrom(items, icase, repl, FALSE, s, 1)
re_sub_keep(items, icase, s) == SubFrom(items, icase, <<>>, TRUE, s, 1)

(***************************************************************************)
(* pgback/env.py                                                           *)
(*                                                                         *)
(* A URL is a sequence of tokens: the delimiters : / ? # @ = & ' are       *)
(* tokens of one character, every other token is a run of characters       *)
(* without delimiters.  A credential is a sequence of characters.          *)
(***************************************************************************)
VARIABLES
    JDBC_URL,          \* os.getenv("JDBC_URL"): NoneSeq or a URL
    JDBC_USER,         \* os.getenv("JDBC_USER"): NoneSeq or characters
    JDBC_PASSWORD,     \* os.getenv("JDBC_PASSWORD"): NoneSeq or characters
    info               \* what resolve_pg_from_env() returned or raised

\* the index of the first token of s at or after position i that is in set
\* c, Len(s) + 1 when there is none (str.find and friends)
FirstIn(s, i, c) ==
    LET hits == {k \in i..Len(s) : s[k] \in c}
    IN  IF hits = {} THEN Len(s) + 1 ELSE CHOOSE k \in hits : \A m \in hits : k <= m
\* the index of the last token of s that is in c, 0 when there is none
LastIn(s, c) ==
    LET hits == {k \in 1..Len(s) : s[k] \in c}
    IN  IF hits = {} THEN 0 ELSE CHOOSE k \in hits : \A m \in hits : k >= m

\* s.strip(chars), s.lstrip(chars)
LStripChars(s, c) ==
    LET keep == {k \in 1..Len(s) : s[k] \notin c}
    IN  IF keep = {} THEN <<>>
        ELSE SubSeq(s, CHOOSE k \in keep : \A m \in keep : k <= m, Len(s))
StripChars(s, c) ==
    LET keep == {k \in 1..Len(s) : s[k] \notin c}
    IN  IF keep = {} THEN <<>>
        ELSE SubSeq(s, CHOOSE k \in keep : \A m \in keep : k <= m,
                       CHOOSE k \in keep : \A m \in keep : k >= m)

\* get_env(): a record with err = "ConfigError" when a variable is missing
get_env(url, user, pwd) ==
    IF url = NoneSeq \/ url = <<>> \/ user = NoneSeq \/ user = <<>> \/ pwd = NoneSeq
    THEN [err |-> "ConfigError", jdbc_url |-> <<>>, user |-> <<>>, password |-> <<>>]
    ELSE [err |-> "none", jdbc_url |-> StripChars(StripChars(url, {"'"}), {DQ}),
          user |-> user, password |-> pwd]

JdbcPrefix == <<"jdbc", ":", "postgresql", ":", "/", "/">>
StartsWith(s, prefix) == Len(s) >= Len(prefix) /\ SubSeq(s, 1, Len(prefix)) = prefix

IsDigits(tok) == tok \in {"0", "5432", "5433", "99999"}
PortInRange(tok) == tok # "99999"
\* str.lower() of one token
Lower(tok) ==
    CASE tok = "DB" -> "db"
      [] tok = "Y" -> "y"
      [] tok = "E" -> "e"
      [] tok = "S" -> "s"
      [] OTHER -> tok

\* urlparse(raw) for raw = scheme://netloc path ?query #fragment, and the
\* hostname and port properties of the result.  The pieces are cut one
\* after the other, each from the position where the one before it ended.
UrlFields(hostname, port, path, query) ==
    [hostname |-> IF hostname = <<>> THEN None ELSE Lower(hostname[1]),
     port |-> IF port = <<>> THEN None ELSE port[1],
     port_error |-> port # <<>> /\ ~(IsDigits(port[1]) /\ PortInRange(port[1])),
     path |-> path,
     query |-> query]
\* hostinfo is the netloc after its last @; the port follows its first :
UrlHostPort(hostinfo, colon, path, query) ==
    UrlFields(SubSeq(hostinfo, 1, colon - 1), SubSeq(hostinfo, colon + 1, Len(hostinfo)),
              path, query)
UrlNetloc(netloc, path, query) ==
    UrlHostPort(SubSeq(netloc, LastIn(netloc, {"@"}) + 1, Len(netloc)),
                FirstIn(SubSeq(netloc, LastIn(netloc, {"@"}) + 1, Len(netloc)), 1, {":"}),
                path, query)
UrlQuery(raw, netlocStart, netlocEnd, pathEnd) ==
    UrlNetloc(SubSeq(raw, netlocStart, netlocEnd - 1),
              SubSeq(raw, netlocEnd, pathEnd - 1),
              SubSeq(raw, pathEnd + 1, FirstIn(raw, pathEnd, {"#"}) - 1))
UrlPath(raw, netlocStart, netlocEnd) ==
    UrlQuery(raw, netlocStart, netlocEnd, FirstIn(raw, netlocEnd, {"?", "#"}))
UrlAfterScheme(raw, netlocStart) ==
    UrlPath(raw, netlocStart, FirstIn(raw, netlocStart, {"/", "?", "#"}))
urlparse(raw) == UrlAfterScheme(raw, FirstIn(raw, 1, {":"}) + 3)    \* past ://

\* parse_qs(query).get(name, [None])[0] for a query of name=value pairs
\* joined by &: the value of the first pair of that name with a value
RECURSIVE QueryFirst(_, _)
QueryFirst(query, name) ==
    IF query = <<>> THEN None
    ELSE LET amp == FirstIn(query, 1, {"&"})
             pair == SubSeq(query, 1, amp - 1)
         IN  IF Len(pair) >= 3 /\ pair[1] = name /\ pair[2] = "="
             THEN pair[3]
             ELSE QueryFirst(SubSeq(query, amp + 1, Len(query)), name)

NoParsed ==
    [err |-> "none", host |-> None, port |-> None, database |-> <<>>,
     current_schema |-> None]
\* env.py 23-35, u being urlparse(raw) and db being u.path.lstrip("/");
\* err is "ValueError" when u.port raises
ParsedFields(u, db) ==
    IF u.port_error THEN [NoParsed EXCEPT !.err = "ValueError"]
    ELSE [err |-> "none",
          host |-> IF u.hostname = None THEN "localhost" ELSE u.hostname,
          port |-> IF u.port = None \/ u.port = "0" THEN "5432" ELSE u.port,
          database |-> IF db = <<>> THEN <<"postgres">> ELSE db,
          current_schema |-> QueryFirst(u.query, "currentSchema")]
ParsedUrl(u) == ParsedFields(u, LStripChars(u.path, {"/"}))
\* parse_jdbc_postgres(jdbc_url); err is "ConfigError" for a wrong prefix
parse_jdbc_postgres(jdbc_url) ==
    IF ~StartsWith(jdbc_url, JdbcPrefix) THEN [NoParsed EXCEPT !.err = "ConfigError"]
    ELSE ParsedUrl(urlparse(SubSeq(jdbc_url, 3, Len(jdbc_url))))    \* past jdbc:

\* urllib.parse.quote(s): every character outside the unreserved characters
\* and the default safe="/" becomes %XX
AlwaysSafe == {"a", "b", "p", "u", "1", "_", ".", "-", "~"}
Pct(ch) ==
    CASE ch = ":" -> "%3A"
      [] ch = "@" -> "%40"
      [] ch = "%" -> "%25"
      [] ch = "?" -> "%3F"
      [] ch = "#" -> "%23"
      [] ch = " " -> "%20"
      [] ch = "/" -> "%2F"
      [] OTHER -> ch
quote(s) == [k \in 1..Len(s) |-> IF s[k] \in AlwaysSafe \cup {"/"} THEN s[k] ELSE Pct(s[k])]

\* f"postgresql://{quote(user)}:{quote(password)}@{host}:{port}/{database}"
build_pg_uri(user, password, host, port, database) ==
    <<"postgresql", ":", "/", "/">> \o quote(user) \o <<":">> \o quote(password)
        \o <<"@", host, ":", port, "/">> \o database

NoInfo ==
    [err |-> "unset", uri |-> <<>>, schema |-> None, jdbc_url |-> <<>>,
     host |-> None, port |-> None, database |-> <<>>]

\* env.py 55-63, env and parsed being the results of get_env() and
\* parse_jdbc_postgres()
ResolvedInfo(env, parsed) ==
    IF parsed.err # "none" THEN [NoInfo EXCEPT !.err = parsed.err]
    ELSE [err |-> "none",
          uri |-> build_pg_uri(env.user, env.password, parsed.host,
                               parsed.port, parsed.database),
          schema |-> parsed.current_schema,
          jdbc_url |-> env.jdbc_url,
          host |-> parsed.host,
          port |-> parsed.port,
          database |-> parsed.database]
ResolvedEnv(env) ==
    IF env.err # "none" THEN [NoInfo EXCEPT !.err = env.err]
    ELSE ResolvedInfo(env, parse_jdbc_postgres(env.jdbc_url))
resolve_pg_from_env(url, user, pwd) == ResolvedEnv(get_env(url, user, pwd))

(***************************************************************************)
(* restore.py: module-level configuration and preprocess_plain_sql         *)
(***************************************************************************)
VARIABLES
    FORCE_ROLE,        \* os.getenv("FORCE_ROLE"): None or a role name
    NO_OWNER,          \* BOOLEAN, parsed from the environment
    SCHEMA_MAP_FROM,   \* None, "" or a schema name
    SCHEMA_MAP_TO,     \* None, "" or a schema name
    sql_text,          \* the text of the dump file
    src_arg,           \* preprocess_plain_sql's src_schema argument
    dst_arg,           \* preprocess_plain_sql's dst_schema argument
    processed,         \* the result of preprocess_plain_sql (None before)
    ppc                \* "call" before preprocess_plain_sql ran, "ret" after

\* Python truthiness of an optional string
Truthy(v) == v # None /\ v # ""

postgis_exts == <<"postgis", "postgis_topology", "fuzzystrmatch", "postgis_tiger_geocoder">>

KINDS ==
    Alt(<< <<Lit(<<"TABLE">>)>>, <<Lit(<<"SEQUENCE">>)>>, <<Lit(<<"VIEW">>)>>,
           <<Lit(<<"MATERIALIZED">>), Greedy("s", 1), Lit(<<"VIEW">>)>>,
           <<Lit(<<"FUNCTION">>)>>, <<Lit(<<"TYPE">>)>>, <<Lit(<<"SCHEMA">>)>>,
           <<Lit(<<"DATABASE">>)>>, <<Lit(<<"INDEX">>)>> >>)

\* (?is)^\s*CREATE\s+EXTENSION\b.*\b{ext}\b.*?;\s*
PatCreateExt(ext) ==
    << Bol(FALSE), Greedy("s", 0), Lit(<<"CREATE">>), Greedy("s", 1),
       Lit(<<"EXTENSION">>), WordB, Greedy("dotall", 0), WordB, Lit(<<ext>>),
       WordB, Lazy("dotall", 0), Lit(<<";">>), Greedy("s", 0) >>
\* (?is)^\s*ALTER\s+EXTENSION\b.*\b{ext}\b.*?;\s*
PatAlterExt(ext) ==
    << Bol(FALSE), Greedy("s", 0), Lit(<<"ALTER">>), Greedy("s", 1),
       Lit(<<"EXTENSION">>), WordB, Greedy("dotall", 0), WordB, Lit(<<ext>>),
       WordB, Lazy("dotall", 0), Lit(<<";">>), Greedy("s", 0) >>
\* (?is)^\s*COMMENT\s+ON\s+EXTENSION\s+{ext}\s+IS\s+.*?;\s*
PatCommentExt(ext) ==
    << Bol(FALSE), Greedy("s", 0), Lit(<<"COMMENT">>), Greedy("s", 1),
       Lit(<<"ON">>), Greedy("s", 1), Lit(<<"EXTENSION">>), Greedy("s", 1),
       Lit(<<ext>>), Greedy("s", 1), Lit(<<"IS">>), Greedy("s", 1),
       Lazy("dotall", 0), Lit(<<";">>), Greedy("s", 0) >>

\* the three substitutions of one extension name (the body of the for loop)
StripExt(ext, s) ==
    re_sub(PatCommentExt(ext), TRUE, <<>>,
        re_sub(PatAlterExt(ext), TRUE, <<>>,
            re_sub(PatCreateExt(ext), TRUE, <<>>, s)))

\* for ext in postgis_exts: ...
RECURSIVE StripExtensions(_, _)
StripExtensions(k, s) ==
    IF k > Len(postgis_exts) THEN s
    ELSE StripExtensions(k + 1, StripExt(postgis_exts[k], s))

\* (?im)^\s*ALTER\s+(TABLE|...|INDEX)\s+.*\s+OWNER\s+TO\s+.*?;\s*
PatAlterOwner ==
    << Bol(TRUE), Greedy("s", 0), Lit(<<"ALTER">>), Greedy("s", 1), KINDS,
       Greedy("s", 1), Greedy("dot", 0), Greedy("s", 1), Lit(<<"OWNER">>),
       Greedy("s", 1), Lit(<<"TO">>), Greedy("s", 1), Lazy("dot", 0),
       Lit(<<";">>), Greedy("s", 0) >>
\* (?im)^\s*COMMENT\s+ON\s+(TABLE|...|INDEX)\s+.*?;\s*
PatCommentOn ==
    << Bol(TRUE), Greedy("s", 0), Lit(<<"COMMENT">>), Greedy("s", 1),
       Lit(<<"ON">>), Greedy("s", 1), KINDS, Greedy("s", 1), Lazy("dot", 0),
       Lit(<<";">>), Greedy("s", 0) >>

\* step 2: the ALTER ... OWNER TO substitution, then the COMMENT ON
\* substitution, whose replacement is \g<0>
StripOwner(s) == re_sub_keep(PatCommentOn, TRUE, re_sub(PatAlterOwner, TRUE, <<>>, s))

\* (?im)^\s*CREATE\s+SCHEMA\s+("?{src}"?).*?;\s*$
PatCreateSchema(src) ==
    << Bol(TRUE), Greedy("s", 0), Lit(<<"CREATE">>), Greedy("s", 1),
       Lit(<<"SCHEMA">>), Greedy("s", 1), Opt(<<DQ>>), Lit(<<src>>), Opt(<<DQ>>),
       Lazy("dot", 0), Lit(<<";">>), Greedy("s", 0), Eol(TRUE) >>
\* (?im)^\s*ALTER\s+SCHEMA\s+("?{src}"?)\s+OWNER\s+TO\s+.*?;\s*$
PatAlterSchema(src) ==
    << Bol(TRUE), Greedy("s", 0), Lit(<<"ALTER">>), Greedy("s", 1),
       Lit(<<"SCHEMA">>), Greedy("s", 1), Opt(<<DQ>>), Lit(<<src>>), Opt(<<DQ>>),
       Greedy("s", 1), Lit(<<"OWNER">>), Greedy("s", 1), Lit(<<"TO">>),
       Greedy("s", 1), Lazy("dot", 0), Lit(<<";">>), Greedy("s", 0), Eol(TRUE) >>
\* (?im)^\s*COMMENT\s+ON\s+SCHEMA\s+("?{src}"?)\s+IS\s+.*?;\s*$
PatCommentSchema(src) ==
    << Bol(TRUE), Greedy("s", 0), Lit(<<"COMMENT">>), Greedy("s", 1),
       Lit(<<"ON">>), Greedy("s", 1), Lit(<<"SCHEMA">>), Greedy("s", 1),
       Opt(<<DQ>>), Lit(<<src>>), Opt(<<DQ>>), Greedy("s", 1), Lit(<<"IS">>),
       Greedy("s", 1), Lazy("dot", 0), Lit(<<";">>), Greedy("s", 0), Eol(TRUE) >>

\* for pat in patterns_drop: out = re.sub(pat, "", out)
DropSchemaStatements(src, s) ==
    re_sub(PatCommentSchema(src), TRUE, <<>>,
        re_sub(PatAlterSchema(src), TRUE, <<>>,
            re_sub(PatCreateSchema(src), TRUE, <<>>, s)))

\* (?im)^\s*SET\s+search_path\s*=\s*<name>\s*,\s*pg_catalog\s*;\s*$
\* name is <<DQ, src, DQ>> or <<src>>
PatSearchPath(name) ==
    << Bol(TRUE), Greedy("s", 0), Lit(<<"SET">>), Greedy("s", 1),
       Lit(<<"search_path">>), Greedy("s", 0), Lit(<<"=">>), Greedy("s", 0),
       Lit(name), Greedy("s", 0), Lit(<<",">>), Greedy("s", 0),
       Lit(<<"pg_catalog">>), Greedy("s", 0), Lit(<<";">>), Greedy("s", 0),
       Eol(TRUE) >>
\* f'SET search_path = {name}, pg_catalog;'
SearchPathStmt(name) ==
    <<"SET", SP, "search_path", SP, "=", SP>> \o name \o <<",", SP, "pg_catalog", ";">>

RewriteSearchPath(src, dst, s) ==
    re_sub(PatSearchPath(<<src>>), TRUE, SearchPathStmt(<<dst>>),
        re_sub(PatSearchPath(<<DQ, src, DQ>>), TRUE, SearchPathStmt(<<DQ, dst, DQ>>), s))

\* (?<![\w"])("{src}")\.   and   (?<![\w"])({src})\.
PatQuotedQualifier(src) == << NotBehind("w_or_dq"), Lit(<<DQ, src, DQ>>), Lit(<<".">>) >>
PatBareQualifier(src) == << NotBehind("w_or_dq"), Lit(<<src>>), Lit(<<".">>) >>
\* f'"{dst_schema}".'
_repl(dst) == <<DQ, dst, DQ, ".">>

RewriteQualifiers(src, dst, s) ==
    re_sub(PatBareQualifier(src), FALSE, _repl(dst),
        re_sub(PatQuotedQualifier(src), FALSE, _repl(dst), s))

preprocess_plain_sql(text, src_schema, dst_schema) ==
    LET out1 == StripExtensions(1, text)
        out2 == IF NO_OWNER THEN StripOwner(out1) ELSE out1
        out3 == IF Truthy(src_schema) /\ Truthy(dst_schema)
                THEN RewriteQualifiers(src_schema, dst_schema,
                         RewriteSearchPath(src_schema, dst_schema,
                             DropSchemaStatements(src_schema, out2)))
                ELSE out2
    IN  IF Truthy(FORCE_ROLE)
        THEN <<"SET", SP, "ROLE", SP, FORCE_ROLE, ";", NL>> \o out3
        ELSE out3

(***************************************************************************)
(* pgback/io.py, pgback/run.py and the two programs dump.py, restore.py    *)
(***************************************************************************)
VARIABLES
    prog,              \* "dump" or "restore": the program that runs
    pc,                \* the statement of main() about to run; "done" at exit
    argc,              \* len(sys.argv)
    file,              \* the file named by sys.argv[1]
    SKIP_SCHEMA,       \* dump.py: BOOLEAN, parsed from the environment
    answer,            \* the line read by input(), NoneSeq before, EOF at end of input
    trace,             \* what the run did so far: prints, commands, exceptions
    raised,            \* the exception propagating through main(), or None
    tmp_file,          \* "none", "present" or "removed": the temporary SQL file
    remove_attempted,  \* os.remove(sql_path) was called
    host_ok,           \* what host_is_resolvable() returned: None, "True" or "False"
    schema_ok,         \* what schema_exists() returned: None, "True" or "False"
    exit_code          \* the exit status of the process, None while it runs

vars ==
    <<JDBC_URL, JDBC_USER, JDBC_PASSWORD, info, FORCE_ROLE, NO_OWNER,
      SCHEMA_MAP_FROM, SCHEMA_MAP_TO, sql_text, src_arg, dst_arg, processed, ppc,
      prog, pc, argc, file, SKIP_SCHEMA, answer, trace, raised, tmp_file,
      remove_attempted, host_ok, schema_ok, exit_code>>

EOF == <<"<EOF>">>

\* the events of a run: a line printed, a command executed (with the exit
\* code and the combined output the process gave), an exception raised, a
\* line read
PrintEv(text) == [e |-> "print", argv |-> <<>>, text |-> text, rc |-> 0]
ExecEv(cmd, rc, out) == [e |-> "exec", argv |-> cmd, text |-> out, rc |-> rc]
RaiseEv(exc) == [e |-> "raise", argv |-> <<>>, text |-> <<exc>>, rc |-> 0]
InputEv(line) == [e |-> "input", argv |-> <<>>, text |-> line, rc |-> 0]

\* str.strip() and str.lower()
Strip(s) == StripChars(s, WS)
LowerSeq(s) == [k \in 1..Len(s) |-> Lower(s[k])]

\* a confirm() that goes on after any answer that is not blank
confirm_any_answer(line) == Strip(line) # <<>>

\* confirm(): ans = input(...).strip().lower(); the run goes on iff ans == "yes"
confirm_proceeds(line) == LowerSeq(Strip(line)) = <<"y", "e", "s">>

\* a run() that does not look at the exit code
run_unchecked(cmd, rc, out) ==
    [events |-> <<PrintEv(<<"[INFO]">> \o cmd), ExecEv(cmd, rc, out), PrintEv(out)>>,
     raised |-> None]

\* run(cmd) for a command that exits rc with combined output out: the events
\* in order, and the exception raised
run(cmd, rc, out) ==
    [events |-> <<PrintEv(<<"[INFO]">> \o cmd), ExecEv(cmd, rc, out), PrintEv(out)>>
                    \o (IF rc # 0 THEN <<RaiseEv("CmdError")>> ELSE <<>>),
     raised |-> IF rc # 0 THEN "CmdError" ELSE None]

\* run_capture(cmd): never raises; prints the output when there is some
run_capture(cmd, rc, out) ==
    <<PrintEv(<<"[INFO]">> \o cmd), ExecEv(cmd, rc, out)>>
        \o (IF out # <<>> THEN <<PrintEv(out)>> ELSE <<>>)

\* a schema_exists() that does not look at the exit code
schema_exists_any_rc(rc, out) == Strip(out) = <<"1">>

\* schema_exists(uri, schema), given the exit code and output of psql -tAc
schema_exists(rc, out) == IF rc # 0 THEN FALSE ELSE Strip(out) = <<"1">>

\* is_plain_sql_file(path): the first 2048 bytes decode as UTF-8
is_plain_sql_file(f) == f.head_utf8

CmdDump(schema, skip_schema) ==
    <<"pg_dump", "<uri>", "-f", "<out_file>">>
        \o (IF Truthy(schema) THEN <<"-n", schema>> ELSE <<>>)
        \o (IF skip_schema THEN <<"--no-owner", "--no-privileges", "--no-tablespaces">>
            ELSE <<>>)
CmdEnsurePostgis == <<"psql", "<uri>", "-c", "CREATE EXTENSION IF NOT EXISTS postgis;">>
CmdSchemaExists(schema) ==
    <<"psql", "<uri>", "-tAc", "SELECT 1 FROM information_schema.schemata WHERE schema_name =", schema>>
CmdRestore == <<"psql", "<uri>", "-v", "ON_ERROR_STOP=1", "-f", "<sql_path>">>

\* (info["schema"] or "public").strip()
target_schema == IF Truthy(info.schema) THEN info.schema ELSE "public"

\* sys.exit(code) after printing text
Exit(text, code) ==
    /\ trace' = trace \o text
    /\ exit_code' = code
    /\ pc' = "done"

\* an exception nobody catches: traceback, exit status 1
Uncaught(events) ==
    /\ trace' = trace \o events
    /\ exit_code' = 1
    /\ pc' = "done"

Goto(label) == pc' = label /\ exit_code' = exit_code

envVars == <<JDBC_URL, JDBC_USER, JDBC_PASSWORD, FORCE_ROLE, NO_OWNER,
             SCHEMA_MAP_FROM, SCHEMA_MAP_TO, SKIP_SCHEMA, prog, argc, file>>
preVars == <<sql_text, src_arg, dst_arg, processed, ppc>>
tmpVars == <<tmp_file, remove_attempted, schema_ok>>
chkVars == <<host_ok>>

\* dump.py 14-16, restore.py 131-133
CheckArgs ==
    /\ pc = "args"
    /\ IF argc # 2
       THEN Exit(<<PrintEv(<<"Usage">>)>>, 2)
       ELSE /\ Goto(IF prog = "dump" THEN "resolve" ELSE "isfile")
            /\ trace' = trace
    /\ UNCHANGED <<envVars, chkVars, preVars, tmpVars, info, answer, raised>>

\* restore.py 135-138
CheckIsFile ==
    /\ pc = "isfile"
    /\ IF ~file.exists
       THEN Exit(<<PrintEv(<<"[ERROR] Backup file not found">>)>>, 2)
       ELSE Goto("is_plain") /\ trace' = trace
    /\ UNCHANGED <<envVars, chkVars, preVars, tmpVars, info, answer, raised>>

\* restore.py 140-144
CheckPlain ==
    /\ pc = "is_plain"
    /\ IF ~is_plain_sql_file(file)
       THEN Exit(<<PrintEv(<<"[ERROR] This restore expects a Plain-Text SQL dump file">>),
                   PrintEv(<<"Re-create the dump">>)>>, 2)
       ELSE Goto("resolve") /\ trace' = trace
    /\ UNCHANGED <<envVars, chkVars, preVars, tmpVars, info, answer, raised>>

\* dump.py 18-22, restore.py 146-150
Resolve ==
    /\ pc = "resolve"
    /\ info' = resolve_pg_from_env(JDBC_URL, JDBC_USER, JDBC_PASSWORD)
    /\ CASE info'.err = "ConfigError" -> Exit(<<PrintEv(<<"[ERROR]", "ConfigError">>)>>, 2)
         [] info'.err = "ValueError" -> Uncaught(<<RaiseEv("ValueError")>>)
         [] OTHER -> Goto("confirm") /\ trace' = trace
    /\ UNCHANGED <<envVars, chkVars, preVars, tmpVars, answer, raised>>

\* the lines confirm() prints before it reads
ConfirmPrompt == <<PrintEv(<<"You are about to">>), PrintEv(<<"jdbc_url">>),
                   PrintEv(<<"Using backup file">>)>>

\* dump.py 23, restore.py 152: confirm()
Confirm(line) ==
    /\ pc = "confirm"
    /\ answer' = line
    /\ IF line = EOF
       THEN Uncaught(ConfirmPrompt \o <<RaiseEv("EOFError")>>)
       ELSE IF ~confirm_proceeds(line)
       THEN Exit(ConfirmPrompt \o <<InputEv(line), PrintEv(<<"Operation cancelled.">>)>>, 1)
       ELSE /\ Goto(IF prog = "dump" THEN "run_dump" ELSE "host")
            /\ trace' = trace \o ConfirmPrompt \o <<InputEv(line)>>
    /\ UNCHANGED <<envVars, chkVars, preVars, tmpVars, info, raised>>

\* dump.py 24-34
RunDump(rc, out) ==
    /\ pc = "run_dump"
    /\ LET r == run(CmdDump(info.schema, SKIP_SCHEMA), rc, out)
       IN  IF r.raised # None
           THEN Uncaught(r.events) /\ raised' = r.raised
           ELSE Goto("completed") /\ trace' = trace \o r.events /\ raised' = raised
    /\ UNCHANGED <<envVars, chkVars, preVars, tmpVars, info, answer>>

\* restore.py 154-158: host_is_resolvable(info["host"]) returned resolvable
CheckHost(resolvable) ==
    /\ pc = "host"
    /\ host_ok' = IF resolvable THEN "True" ELSE "False"
    /\ IF ~resolvable
       THEN Exit(<<PrintEv(<<"[ERROR] Host is not resolvable">>), PrintEv(<<"Tips">>)>>, 2)
       ELSE Goto("ensure_postgis") /\ trace' = trace
    /\ UNCHANGED <<envVars, preVars, tmpVars, info, answer, raised>>

\* restore.py 163-164
EnsurePostgis(rc, out) ==
    /\ pc = "ensure_postgis"
    /\ LET r == run(CmdEnsurePostgis, rc, out)
       IN  IF r.raised # None
           THEN Uncaught(r.events) /\ raised' = r.raised
           ELSE Goto("schema_check") /\ trace' = trace \o r.events /\ raised' = raised
    /\ UNCHANGED <<envVars, chkVars, preVars, tmpVars, info, answer>>

\* restore.py 166-170
CheckSchema(rc, out) ==
    /\ pc = "schema_check"
    /\ IF Truthy(SCHEMA_MAP_FROM) /\ Truthy(SCHEMA_MAP_TO)
       THEN LET evs == run_capture(CmdSchemaExists(SCHEMA_MAP_TO), rc, out)
            IN  IF ~schema_exists(rc, out)
                THEN /\ Exit(evs \o <<PrintEv(<<"[ERROR] Destination schema does not exist">>)>>, 2)
                     /\ schema_ok' = "False"
                ELSE /\ Goto("read") /\ trace' = trace \o evs
                     /\ schema_ok' = "True"
       ELSE Goto("read") /\ trace' = trace /\ schema_ok' = schema_ok
    /\ UNCHANGED <<envVars, chkVars, preVars, tmp_file, remove_attempted, info, answer, raised>>

\* restore.py 172-174: the whole file is read and decoded; text is its content
ReadDump(text) ==
    /\ pc = "read"
    /\ IF ~file.all_utf8
       THEN /\ Uncaught(<<RaiseEv("UnicodeDecodeError")>>)
            /\ sql_text' = sql_text
       ELSE /\ Goto("preprocess") /\ trace' = trace
            /\ sql_text' = text
    /\ UNCHANGED <<envVars, chkVars, src_arg, dst_arg, processed, ppc, tmpVars, info, answer, raised>>

\* restore.py 176-180
Preprocess ==
    /\ pc = "preprocess"
    /\ LET src == SCHEMA_MAP_FROM
           dst == IF Truthy(SCHEMA_MAP_TO) THEN SCHEMA_MAP_TO ELSE target_schema
       IN  /\ src_arg' = src
           /\ dst_arg' = dst
           /\ processed' = preprocess_plain_sql(sql_text, src, dst)
    /\ ppc' = "ret"
    /\ Goto("write_tmp") /\ trace' = trace
    /\ UNCHANGED <<envVars, chkVars, sql_text, tmpVars, info, answer, raised>>

\* restore.py 182-184: the file is created (delete=False), then written
WriteTemp(written) ==
    /\ pc = "write_tmp"
    /\ tmp_file' = "present"
    /\ IF ~written
       THEN Uncaught(<<RaiseEv("OSError")>>)
       ELSE Goto("main_restore") /\ trace' = trace
    /\ UNCHANGED <<envVars, chkVars, preVars, remove_attempted, schema_ok, info, answer, raised>>

\* restore.py 186-188: the body of the try
MainRestore(rc, out) ==
    /\ pc = "main_restore"
    /\ LET r == run(CmdRestore, rc, out)
       IN  /\ trace' = trace \o r.events
           /\ raised' = r.raised
    /\ Goto("finally")
    /\ UNCHANGED <<envVars, chkVars, preVars, tmpVars, info, answer>>

\* restore.py 189-193: the finally clause; removed is whether os.remove
\* succeeded (its OSError is swallowed)
Finally(removed) ==
    /\ pc = "finally"
    /\ remove_attempted' = TRUE
    /\ tmp_file' = IF removed THEN "removed" ELSE tmp_file
    /\ IF raised # None
       THEN Uncaught(<<>>)
       ELSE Goto("completed") /\ trace' = trace
    /\ UNCHANGED <<envVars, chkVars, preVars, schema_ok, info, answer, raised>>

\* dump.py 35, restore.py 195
Completed ==
    /\ pc = "completed"
    /\ Exit(<<PrintEv(IF prog = "dump" THEN <<"[INFO] Dump completed.">>
                      ELSE <<"[INFO] Restore completed.">>)>>, 0)
    /\ UNCHANGED <<envVars, chkVars, preVars, tmpVars, info, answer, raised>>

(***************************************************************************)
(* The inputs and the specifications                                       *)
(***************************************************************************)
MaxAnsLen == 4
MaxOutLen == 3
MaxStmts == 2
MaxCredLen == 2

SeqsUpTo(S, n) == UNION {[1..k -> S] : k \in 0..n}

\* what the user may type at the prompt
AnsChars == {"y", "Y", "e", "s", SP}
Answers == SeqsUpTo(AnsChars, MaxAnsLen) \cup {EOF}
\* what psql -tAc may print, and how it may exit
OutChars == {"1", "0", SP, NL}
Outs == SeqsUpTo(OutChars, MaxOutLen)
Rcs == {0, 1}
\* what a command started by run() may print
RunOuts == {<<>>, <<"x">>}

Files ==
    {[exists |-> FALSE, head_utf8 |-> FALSE, all_utf8 |-> FALSE]}
        \cup [exists : {TRUE}, head_utf8 : BOOLEAN, all_utf8 : BOOLEAN]
NoFile == [exists |-> FALSE, head_utf8 |-> FALSE, all_utf8 |-> FALSE]

UrlHead == <<"jdbc", ":", "postgresql", ":", "/", "/">>
RunUrls ==
    { NoneSeq,
      UrlHead \o <<"db", ":", "5433", "/", "app", "?", "currentSchema", "=", "app">>,
      UrlHead \o <<"db", "/", "app">>,
      UrlHead \o <<"db", ":", "abc", "/", "app">>,
      <<"postgresql", ":", "/", "/", "db", "/", "app">> }

\* dump files: statements of pg_dump's plain format
S_Select == <<"SELECT", SP, "1", ";">>
S_CreateExt == <<"CREATE", SP, "EXTENSION", SP, "postgis", ";">>
S_CommentExt == <<"COMMENT", SP, "ON", SP, "EXTENSION", SP, "postgis", SP, "IS", SP, "c", ";">>
S_CreateHstore == <<"CREATE", SP, "EXTENSION", SP, "hstore", ";">>
S_AlterOwner == <<"ALTER", SP, "TABLE", SP, "t", SP, "OWNER", SP, "TO", SP, "y", ";">>
S_AlterAdd == <<"ALTER", SP, "TABLE", SP, "t", SP, "ADD", SP, "c", ";">>
S_CommentTable == <<"COMMENT", SP, "ON", SP, "TABLE", SP, "t", SP, "IS", SP, "c", ";">>
S_SearchPath == <<"SET", SP, "search_path", SP, "=", SP, "old", ",", SP, "pg_catalog", ";">>
S_SearchPathExtra ==
    <<"SET", SP, "search_path", SP, "=", SP, "old", "extra", ",", SP, "pg_catalog", ";">>
S_CreateSchema == <<"CREATE", SP, "SCHEMA", SP, "old", ";">>
S_CreateSchemaExtra == <<"CREATE", SP, "SCHEMA", SP, "old", "extra", ";">>
S_Qualified ==
    <<"SELECT", SP, "old", ".", "t", ",", SP, DQ, "old", DQ, ".", "t", ",", SP,
      "old", "extra", ".", "t", ";">>

Fragments ==
    { S_Select, S_CreateExt, S_CommentExt, S_CreateHstore, S_AlterOwner, S_AlterAdd,
      S_CommentTable, S_SearchPath, S_SearchPathExtra, S_CreateSchema,
      S_CreateSchemaExtra, S_Qualified }
\* after a statement: the end of the line, or a space and the next statement
\* on the same line
Seps == {<<NL>>, <<SP>>}

RECURSIVE Texts(_)
Texts(n) ==
    IF n = 0 THEN {<<>>}
    ELSE {f \o sep \o rest : f \in Fragments, sep \in Seps, rest \in Texts(n - 1)}
InputTexts == UNION {Texts(n) : n \in 0..MaxStmts}

RunTexts == {S_Qualified \o <<NL>>, S_CreateExt \o <<NL>> \o S_AlterOwner \o <<NL>>}

\* ---- the runs of dump.py and restore.py ----
Init ==
    /\ prog \in {"dump", "restore"}
    /\ argc \in 1..3
    /\ JDBC_URL \in RunUrls
    /\ JDBC_USER \in {NoneSeq, <<"u">>}
    /\ JDBC_PASSWORD \in {NoneSeq, <<"p", "/">>}
    /\ IF prog = "restore"
       THEN /\ file \in Files
            /\ SCHEMA_MAP_FROM \in {None, "", "old"}
            /\ SCHEMA_MAP_TO \in {None, "", "new"}
            /\ NO_OWNER = TRUE
            /\ FORCE_ROLE = None
            /\ SKIP_SCHEMA = TRUE
       ELSE /\ file = NoFile
            /\ SCHEMA_MAP_FROM = None
            /\ SCHEMA_MAP_TO = None
            /\ NO_OWNER = TRUE
            /\ FORCE_ROLE = None
            /\ SKIP_SCHEMA \in BOOLEAN
    /\ info = NoInfo
    /\ sql_text = <<>>
    /\ src_arg = None
    /\ dst_arg = None
    /\ processed = NoneSeq
    /\ ppc = "call"
    /\ pc = "args"
    /\ answer = NoneSeq
    /\ trace = <<>>
    /\ raised = None
    /\ tmp_file = "none"
    /\ remove_attempted = FALSE
    /\ host_ok = None
    /\ schema_ok = None
    /\ exit_code = None

Next ==
    \/ CheckArgs
    \/ CheckIsFile
    \/ CheckPlain
    \/ Resolve
    \/ \E line \in Answers : Confirm(line)
    \/ \E rc \in Rcs, out \in RunOuts : RunDump(rc, out)
    \/ \E resolvable \in BOOLEAN : CheckHost(resolvable)
    \/ \E rc \in Rcs, out \in RunOuts : EnsurePostgis(rc, out)
    \/ \E rc \in Rcs, out \in Outs : CheckSchema(rc, out)
    \/ \E text \in RunTexts : ReadDump(text)
    \/ Preprocess
    \/ \E written \in BOOLEAN : WriteTemp(written)
    \/ \E rc \in Rcs, out \in RunOuts : MainRestore(rc, out)
    \/ \E removed \in BOOLEAN : Finally(removed)
    \/ Completed

Spec == Init /\ [][Next]_vars

\* ---- preprocess_plain_sql on its own ----
runIdle ==
    /\ prog = "restore"
    /\ pc = "preprocess"
    /\ argc = 2
    /\ file = [exists |-> TRUE, head_utf8 |-> TRUE, all_utf8 |-> TRUE]
    /\ SKIP_SCHEMA = TRUE
    /\ answer = NoneSeq
    /\ trace = <<>>
    /\ raised = None
    /\ tmp_file = "none"
    /\ remove_attempted = FALSE
    /\ host_ok = None
    /\ schema_ok = None
    /\ exit_code = None

PreInit ==
    /\ sql_text \in InputTexts
    /\ \E cfg \in { <<FALSE, None, None, None>>, <<TRUE, None, None, None>>,
                    <<FALSE, None, "old", "new">>, <<FALSE, "app", None, None>>,
                    <<FALSE, None, "old", None>>, <<TRUE, "app", "old", "new">> } :
          /\ NO_OWNER = cfg[1]
          /\ FORCE_ROLE = cfg[2]
          /\ src_arg = cfg[3]
          /\ dst_arg = cfg[4]
    /\ SCHEMA_MAP_FROM = src_arg
    /\ SCHEMA_MAP_TO = dst_arg
    /\ processed = NoneSeq
    /\ ppc = "call"
    /\ JDBC_URL = NoneSeq
    /\ JDBC_USER = NoneSeq
    /\ JDBC_PASSWORD = NoneSeq
    /\ info = NoInfo
    /\ runIdle

\* restore.py 64-125
PreprocessCall ==
    /\ ppc = "call"
    /\ processed' = preprocess_plain_sql(sql_text, src_arg, dst_arg)
    /\ ppc' = "ret"
    /\ UNCHANGED <<JDBC_URL, JDBC_USER, JDBC_PASSWORD, info, FORCE_ROLE, NO_OWNER,
                   SCHEMA_MAP_FROM, SCHEMA_MAP_TO, sql_text, src_arg, dst_arg,
                   prog, pc, argc, file, SKIP_SCHEMA, answer, trace, raised,
                   tmp_file, remove_attempted, host_ok, schema_ok, exit_code>>

PreNext == PreprocessCall
SpecPre == PreInit /\ [][PreNext]_vars

\* ---- resolve_pg_from_env on its own ----
CredChars == {"a", "/", ":", "@", "%"}
Creds == SeqsUpTo(CredChars, MaxCredLen) \cup {NoneSeq}
Hosts == {"db", "DB"}
Ports == {"5433", "0", "abc"}
Dbs == {"app"}
Schemas == {"app"}
\* jdbc:postgresql://h:p/db?currentSchema=s
WellFormedUrl(h, p, db, s) ==
    UrlHead \o <<h, ":", p, "/", db, "?", "currentSchema", "=", s>>
EnvUrls ==
    {WellFormedUrl(h, p, db, s) : h \in Hosts, p \in Ports, db \in Dbs, s \in Schemas}
        \cup { NoneSeq, <<>>,
               UrlHead \o <<"db">>,
               UrlHead \o <<"db", "/", "app", "?", "other", "=", "a", "&", "currentSchema", "=", "app">>,
               <<"'">> \o UrlHead \o <<"db", "/", "app", "'">>,
               <<"postgresql", ":", "/", "/", "db", ":", "5433", "/", "app">>,
               <<"jdbc", ":", "mysql", ":", "/", "/", "db", ":", "5433", "/", "app">> }

EnvInit ==
    /\ JDBC_URL \in EnvUrls
    /\ JDBC_USER \in Creds
    /\ JDBC_PASSWORD \in Creds
    /\ info = NoInfo
    /\ FORCE_ROLE = None
    /\ NO_OWNER = TRUE
    /\ SCHEMA_MAP_FROM = None
    /\ SCHEMA_MAP_TO = None
    /\ sql_text = <<>>
    /\ src_arg = None
    /\ dst_arg = None
    /\ processed = NoneSeq
    /\ ppc = "call"
    /\ runIdle

\* env.py 43-63
ResolveCall ==
    /\ info.err = "unset"
    /\ info' = resolve_pg_from_env(JDBC_URL, JDBC_USER, JDBC_PASSWORD)
    /\ UNCHANGED <<JDBC_URL, JDBC_USER, JDBC_PASSWORD, FORCE_ROLE, NO_OWNER,
                   SCHEMA_MAP_FROM, SCHEMA_MAP_TO, sql_text, src_arg, dst_arg,
                   processed, ppc, prog, pc, argc, file, SKIP_SCHEMA, answer, trace,
                   raised, tmp_file, remove_attempted, host_ok, schema_ok, exit_code>>

EnvNext == ResolveCall
SpecEnv == EnvInit /\ [][EnvNext]_vars

(***************************************************************************)
(* Properties of the runs (specification Spec)                             *)
(***************************************************************************)
Events == 1..Len(trace)
Executed(i) == trace[i].e = "exec"
NoCommandRan == \A i \in Events : ~Executed(i)
RestoreRanAt(i) == Executed(i) /\ trace[i].argv = CmdRestore

\* the answer is the word yes, in any case, and nothing else
IsYes(line) ==
    /\ Len(line) = 3
    /\ line[1] \in {"y", "Y"} /\ line[2] \in {"e", "E"} /\ line[3] \in {"s", "S"}
\* the answer is the word yes, in any case, between blanks
IsYesPadded(line) ==
    \E a \in 1..Len(line) :
        /\ a + 2 <= Len(line)
        /\ IsYes(SubSeq(line, a, a + 2))
        /\ \A k \in 1..Len(line) : (k < a \/ k > a + 2) => line[k] \in WS

\* C1 as stated: a command is executed only after the prompt was answered
\* with exactly yes (in any case); after any other answer, end of input
\* included, no command is executed and the run ends with exit code 1.
C1_ExactYes ==
    /\ \A i \in Events :
          Executed(i) =>
              \E j \in 1..(i - 1) : trace[j].e = "input" /\ IsYes(trace[j].text)
    /\ (answer # NoneSeq /\ ~IsYes(answer)) =>
          /\ NoCommandRan
          /\ pc = "done" => exit_code = 1

\* C1 amended: a command is executed only after the prompt was answered with
\* yes, in any case and with any blanks around it; after any other answer,
\* end of input included, no command is executed and the run ends with exit
\* code 1.
C1_YesIgnoringBlanks ==
    /\ \A i \in Events :
          Executed(i) =>
              \E j \in 1..(i - 1) : trace[j].e = "input" /\ IsYesPadded(trace[j].text)
    /\ (answer # NoneSeq /\ ~IsYesPadded(answer)) =>
          /\ NoCommandRan
          /\ pc = "done" => exit_code = 1

\* C1: a run that executed a command after an answer of yes with a blank
\* next to it
C1_PaddedYesRan ==
    /\ pc = "done"
    /\ ~NoCommandRan
    /\ IsYesPadded(answer) /\ ~IsYes(answer)

\* the configuration in the environment is missing or malformed: a variable
\* is not set, the URL has another prefix, or its port is not a number
PortOf(url) ==
    LET stop == FirstIn(url, 7, {"/", "?", "#"})
        colon == FirstIn(url, 7, {":"})
    IN  IF colon + 1 < stop THEN <<url[colon + 1]>> ELSE <<>>
ConfigurationInvalid ==
    \/ NoneSeq \in {JDBC_URL, JDBC_USER, JDBC_PASSWORD}
    \/ ~StartsWith(JDBC_URL, UrlHead)
    \/ PortOf(JDBC_URL) # <<>> /\ ~IsDigits(PortOf(JDBC_URL)[1])

\* C2: a restore run ends with exit code 2 when the argument count is
\* wrong, when the file is missing, when the file fails the plain-text
\* heuristic, when the configuration it resolved is invalid, when the host
\* was found unresolvable, and when the destination schema was reported
\* missing; and a run that ends with exit code 2 never executed the main
\* restore command.
C2_ExitCode2 ==
    (prog = "restore" /\ pc = "done") =>
        /\ argc # 2 => exit_code = 2
        /\ (argc = 2 /\ ~file.exists) => exit_code = 2
        /\ (argc = 2 /\ file.exists /\ ~file.head_utf8) => exit_code = 2
        /\ (info.err # "unset" /\ ConfigurationInvalid) => exit_code = 2
        /\ host_ok = "False" => exit_code = 2
        /\ schema_ok = "False" => exit_code = 2
        /\ exit_code = 2 => \A i \in Events : ~RestoreRanAt(i)

\* C2: a restore run that resolved a URL whose port is not a number and
\* ended with another exit code than 2
C2_BadPortExit1 ==
    /\ prog = "restore" /\ pc = "done"
    /\ info.err # "unset"
    /\ JDBC_URL # NoneSeq /\ PortOf(JDBC_URL) = <<"abc">>
    /\ exit_code = 1

\* C3: when a restore run that created the temporary file has ended, the
\* removal of the file was attempted.
C3_TempFileRemoved ==
    (pc = "done" /\ tmp_file # "none") => remove_attempted

\* C3: a run that ended after a failed write, with the temporary file left
\* behind and no attempt to remove it
C3_TempFileLeft ==
    /\ pc = "done"
    /\ tmp_file = "present"
    /\ ~remove_attempted
    /\ trace[Len(trace)] = RaiseEv("OSError")

\* the commands started by run(): pg_dump, the CREATE EXTENSION step and the
\* main restore
StartedByRun(argv) == argv[1] = "pg_dump" \/ argv \in {CmdEnsurePostgis, CmdRestore}
CompletedMessage(ev) ==
    ev.e = "print" /\ ev.text \in {<<"[INFO] Dump completed.">>, <<"[INFO] Restore completed.">>}
FailedAt(i) == Executed(i) /\ StartedByRun(trace[i].argv) /\ trace[i].rc # 0

\* C4: when a command started by run() exits non-zero, its output is
\* printed next and then CmdError is raised, no command is executed after
\* it, the completed message is never printed, and the run does not end
\* with exit code 0.
C4_FailureTerminal ==
    \A i \in Events :
        FailedAt(i) =>
            /\ i + 2 <= Len(trace)
            /\ trace[i + 1] = PrintEv(trace[i].text)
            /\ trace[i + 2] = RaiseEv("CmdError")
            /\ \A j \in Events : j > i => ~Executed(j)
            /\ \A j \in Events : ~CompletedMessage(trace[j])
            /\ pc = "done" => exit_code # 0

\* C4: a restore run that ended after the CREATE EXTENSION step failed
C4_EnsurePostgisFailed ==
    /\ pc = "done"
    /\ \E i \in Events : FailedAt(i) /\ trace[i].argv = CmdEnsurePostgis

\* the output is the digit 1 between blanks
IsOnePadded(out) ==
    \E k \in 1..Len(out) :
        out[k] = "1" /\ \A m \in 1..Len(out) : m # k => out[m] \in WS
SchemaQueryAt(i) == Executed(i) /\ trace[i].argv[3] = "-tAc"

\* C5: schema_exists returned true exactly when the existence query exited
\* 0 with the output 1 between blanks; when the query exited non-zero no
\* exception was raised.
C5_SchemaExists ==
    \A i \in Events :
        SchemaQueryAt(i) =>
            /\ schema_ok \in {"True", "False"}
            /\ schema_ok = "True" <=> (trace[i].rc = 0 /\ IsOnePadded(trace[i].text))
            /\ trace[i].rc # 0 => \A j \in Events : trace[j].e # "raise"

\* C5: the existence query printed 1 and exited non-zero, and schema_exists
\* returned false
C5_FailedQueryFalse ==
    /\ schema_ok = "False"
    /\ \E i \in Events : SchemaQueryAt(i) /\ trace[i].rc # 0 /\ trace[i].text = <<"1">>

\* the SQL that is executed is not what preprocessing without a remap gives
RemapApplied == processed # preprocess_plain_sql(sql_text, None, None)

\* C10: when the main restore command is executed on remapped SQL, both
\* SCHEMA_MAP_FROM and SCHEMA_MAP_TO are configured and schema_exists
\* returned true for the destination.
C10_RemapChecked ==
    \A i \in Events :
        (RestoreRanAt(i) /\ RemapApplied) =>
            /\ Truthy(SCHEMA_MAP_FROM) /\ Truthy(SCHEMA_MAP_TO)
            /\ schema_ok = "True"

\* C10: remapped SQL was executed with SCHEMA_MAP_TO not configured and
\* no existence check made
C10_RemapUnchecked ==
    /\ \E i \in Events : RestoreRanAt(i)
    /\ RemapApplied
    /\ ~Truthy(SCHEMA_MAP_TO)
    /\ schema_ok = None

(***************************************************************************)
(* Properties of preprocess_plain_sql (specification SpecPre)              *)
(***************************************************************************)
\* the statements of a text: each ends at a semicolon and starts at the
\* first token that is not blank after the statement before it
StmtEnds(text) == {k \in 1..Len(text) : text[k] = ";"}
StmtStart(text, b) ==
    LET before == {k \in StmtEnds(text) : k < b}
        prev == IF before = {} THEN 0 ELSE CHOOSE k \in before : \A m \in before : m <= k
    IN  CHOOSE a \in (prev + 1)..b :
            text[a] \notin WS /\ \A m \in (prev + 1)..(a - 1) : text[m] \in WS
StartsLine(text, a) == a = 1 \/ text[a - 1] = NL
EndsLine(text, b) == b = Len(text) \/ text[b + 1] = NL
NonBlank(s) == SelectSeq(s, LAMBDA t : t \notin WS)
StmtWords(text, b) == NonBlank(SubSeq(text, StmtStart(text, b), b))
\* the text made of the statements that end at the positions in ends, and of
\* what follows the last statement, blanks left out
KeptStatements(text, ends) ==
    LET last == IF StmtEnds(text) = {} THEN 0
                ELSE CHOOSE k \in StmtEnds(text) : \A m \in StmtEnds(text) : m <= k
        idx == {k \in 1..Len(text) :
                    /\ text[k] \notin WS
                    /\ \/ k > last
                       \/ \E b \in ends : StmtStart(text, b) <= k /\ k <= b}
        nth(j) == CHOOSE k \in idx : Cardinality({m \in idx : m <= k}) = j
    IN  [j \in 1..Cardinality(idx) |-> text[nth(j)]]
Contains(s, sub) ==
    \E i \in 0..(Len(s) - Len(sub)) : SubSeq(s, i + 1, i + Len(sub)) = sub

SpatialExtensions == {"postgis", "postgis_topology", "fuzzystrmatch", "postgis_tiger_geocoder"}
IsExtensionStmt(w) ==
    /\ Len(w) >= 3
    /\ \/ w[1] \in {"CREATE", "ALTER"} /\ w[2] = "EXTENSION"
       \/ w[1] = "COMMENT" /\ w[2] = "ON" /\ w[3] = "EXTENSION"
    /\ \E k \in 1..Len(w) : w[k] \in SpatialExtensions
OwnedKinds ==
    {"TABLE", "SEQUENCE", "VIEW", "MATERIALIZED", "FUNCTION", "TYPE", "SCHEMA",
     "DATABASE", "INDEX"}
IsOwnershipStmt(w) ==
    /\ Len(w) >= 2
    /\ w[1] = "ALTER" /\ w[2] \in OwnedKinds
    /\ \E k \in 1..(Len(w) - 1) : w[k] = "OWNER" /\ w[k + 1] = "TO"
NamesNoExtension(text) == \A k \in 1..Len(text) : text[k] \notin SpatialExtensions
NoRemap == ~(Truthy(src_arg) /\ Truthy(dst_arg))

\* C6: with ownership stripping off, no forced role and no remap, the
\* output is the input without its spatial-extension statements: those that
\* start a line are gone, every statement that is not one is there,
\* unchanged and in order (blanks between statements are not compared).
C6_OnlyExtensionsRemoved ==
    (ppc = "ret" /\ ~NO_OWNER /\ ~Truthy(FORCE_ROLE) /\ NoRemap) =>
        LET ends == StmtEnds(sql_text)
            ext == {b \in ends : IsExtensionStmt(StmtWords(sql_text, b))}
            gone == {b \in ext : StartsLine(sql_text, StmtStart(sql_text, b))}
        IN  \E some \in SUBSET (ext \ gone) :
                NonBlank(processed) = KeptStatements(sql_text, (ends \ ext) \cup some)

\* C6: CREATE EXTENSION postgis on the second line of the input is still in
\* the output
C6_ExtensionOnSecondLineKept ==
    /\ ppc = "ret" /\ ~NO_OWNER /\ ~Truthy(FORCE_ROLE) /\ NoRemap
    /\ sql_text = S_Select \o <<NL>> \o S_CreateExt \o <<NL>>
    /\ processed = sql_text

\* C7: with ownership stripping on (no forced role, no remap, no extension
\* named), the ownership statements that start a line are gone and every
\* statement that is not an ownership statement is there, unchanged and in
\* order (blanks between statements are not compared).
C7_OnlyOwnershipRemoved ==
    (ppc = "ret" /\ NO_OWNER /\ ~Truthy(FORCE_ROLE) /\ NoRemap
        /\ NamesNoExtension(sql_text)) =>
        LET ends == StmtEnds(sql_text)
            own == {b \in ends : IsOwnershipStmt(StmtWords(sql_text, b))}
            gone == {b \in own : StartsLine(sql_text, StmtStart(sql_text, b))}
        IN  \E some \in SUBSET (own \ gone) :
                NonBlank(processed) = KeptStatements(sql_text, (ends \ own) \cup some)

\* C7: ALTER TABLE t ADD c; is removed with the ownership statement that
\* follows it on the same line
C7_AddColumnRemoved ==
    /\ ppc = "ret" /\ NO_OWNER /\ ~Truthy(FORCE_ROLE) /\ NoRemap
    /\ sql_text = S_AlterAdd \o <<SP>> \o S_AlterOwner \o <<NL>>
    /\ ~Contains(processed, <<"ADD">>)

\* src occurs as a whole identifier at position k of s
Standalone(s, k, src) ==
    /\ s[k] = src
    /\ k = 1 \/ ~IsWord(s[k - 1])
    /\ k = Len(s) \/ ~IsWord(s[k + 1])
\* a qualifier src. or "src". not preceded by a word character or a quote
QualifierAt(s, k, src) ==
    /\ k = 1 \/ (~IsWord(s[k - 1]) /\ s[k - 1] # DQ)
    /\ \/ k + 1 <= Len(s) /\ s[k] = src /\ s[k + 1] = "."
       \/ k + 3 <= Len(s) /\ s[k] = DQ /\ s[k + 1] = src /\ s[k + 2] = DQ /\ s[k + 3] = "."
SearchPathLine(schema) ==
    <<"SET", SP, "search_path", SP, "=", SP, schema, ",", SP, "pg_catalog", ";">>

\* C8: with a remap from src to dst (ownership stripping off, no forced
\* role, no extension named), a line SET search_path = src, pg_catalog;
\* is in the output with dst for src, no qualifier src. or "src". is left
\* in the output, and every statement that names src only inside a longer
\* identifier is in the output unchanged.
C8_RemapOnlySrc ==
    (ppc = "ret" /\ ~NO_OWNER /\ ~Truthy(FORCE_ROLE) /\ ~NoRemap
        /\ NamesNoExtension(sql_text)) =>
        /\ \A b \in StmtEnds(sql_text) :
              LET a == StmtStart(sql_text, b)
              IN  (/\ StartsLine(sql_text, a) /\ EndsLine(sql_text, b)
                   /\ SubSeq(sql_text, a, b) = SearchPathLine(src_arg))
                      => Contains(processed, SearchPathLine(dst_arg))
        /\ \A k \in 1..Len(processed) : ~QualifierAt(processed, k, src_arg)
        /\ \A b \in StmtEnds(sql_text) :
              LET a == StmtStart(sql_text, b)
              IN  (/\ \A k \in a..b : ~Standalone(sql_text, k, src_arg)
                   /\ \E k \in a..(b - 1) : sql_text[k] = src_arg /\ IsWord(sql_text[k + 1]))
                      => Contains(NonBlank(processed), StmtWords(sql_text, b))

\* C8: with the remap from old to new, CREATE SCHEMA oldextra; is not in the
\* output
C8_OtherSchemaDropped ==
    /\ ppc = "ret" /\ ~NO_OWNER /\ ~Truthy(FORCE_ROLE)
    /\ src_arg = "old" /\ dst_arg = "new"
    /\ sql_text = S_CreateSchemaExtra \o <<NL>>
    /\ ~Contains(processed, <<"SCHEMA">>)

(***************************************************************************)
(* Properties of resolve_pg_from_env (specification SpecEnv)               *)
(***************************************************************************)
\* jdbc:postgresql://h:p/db?currentSchema=s, h in lower case, p a port number
IsWellFormedUrl(url) ==
    /\ Len(url) = 15
    /\ SubSeq(url, 1, 6) = UrlHead
    /\ <<url[8], url[10], url[12], url[13], url[14]>> = <<":", "/", "?", "currentSchema", "=">>
    /\ \A k \in {7, 9, 11, 15} : IsWord(url[k])
    /\ Lower(url[7]) = url[7]
    /\ IsDigits(url[9]) /\ PortInRange(url[9]) /\ url[9] # "0"
\* the percent-encoding of a character that is reserved in a URI
PercentEncoded(c) ==
    CASE c = "/" -> "%2F"
      [] c = ":" -> "%3A"
      [] c = "@" -> "%40"
      [] c = "?" -> "%3F"
      [] c = "#" -> "%23"
      [] c = "%" -> "%25"
      [] OTHER -> c
EncodedSeq(s) == [k \in 1..Len(s) |-> PercentEncoded(s[k])]
Quoted(url) == url # <<>> /\ url[1] \in {"'", DQ}

\* C9: for a well-formed URL, a user and a password, the resolver gives the
\* host, port, database and schema of the URL and the URI
\* postgresql://user:password@h:p/db with the reserved characters of user
\* and password percent-encoded; for a URL with another prefix it fails with
\* ConfigError.
C9_ResolvedFields ==
    (info.err # "unset" /\ JDBC_URL # NoneSeq) =>
        /\ (/\ IsWellFormedUrl(JDBC_URL)
            /\ JDBC_USER \notin {NoneSeq, <<>>}
            /\ JDBC_PASSWORD # NoneSeq) =>
              /\ info.err = "none"
              /\ info.host = JDBC_URL[7]
              /\ info.port = JDBC_URL[9]
              /\ info.database = <<JDBC_URL[11]>>
              /\ info.schema = JDBC_URL[15]
              /\ info.uri = <<"postgresql", ":", "/", "/">> \o EncodedSeq(JDBC_USER) \o <<":">>
                                \o EncodedSeq(JDBC_PASSWORD)
                                \o <<"@", JDBC_URL[7], ":", JDBC_URL[9], "/", JDBC_URL[11]>>
        /\ (~Quoted(JDBC_URL) /\ ~StartsWith(JDBC_URL, UrlHead)) => info.err = "ConfigError"

\* C9: the password a/ is put in the URI with its slash as it is
C9_SlashNotEncoded ==
    /\ JDBC_URL = WellFormedUrl("db", "5433", "app", "app")
    /\ JDBC_USER = <<"a">>
    /\ JDBC_PASSWORD = <<"a", "/">>
    /\ info.uri = <<"postgresql", ":", "/", "/", "a", ":", "a", "/", "@", "db", ":", "5433", "/", "app">>

====
